---- MODULE Spec2Model ----
(***************************************************************************)
(* State-machine model of src/app.py, the Streamlit script that converts   *)
(* an uploaded raster image to CMYK (ISO Coated v2 / FOGRA39).             *)
(*                                                                         *)
(* One behaviour is one server process: the script is executed from the   *)
(* top on every interaction (Rerun).  A script run goes through            *)
(*   startup -> widgets -> open -> standardize -> convert -> encode ->     *)
(*   download -> done                                                      *)
(* and can end early in halted (st.stop at startup), idle (no upload),     *)
(* stopped (st.stop inside the request), error (the request's except       *)
(* clause ran) or crashed (an exception left the script).                  *)
(*                                                                         *)
(* Images are one pixel wide: px holds the band samples in band order.     *)
(* Pillow and littleCMS are modelled by what they do to mode, bands,       *)
(* info and save parameters; their failures are inputs of the actions.     *)
(***************************************************************************)
EXTENDS Integers, Sequences, FiniteSets, TLC

\* ---------------------------------------------------------------- bounds
\* Largest band sample (stands for 255).
MaxChan == 1
\* Script runs per behaviour.
MaxRuns == 2

\* ------------------------------------------------------------- constants
SRGB_PROFILE == "profiles/sRGB_IEC61966-2-1.icc"
ADOBE_RGB_PROFILE == "profiles/AdobeRGB1998.icc"
CMYK_PROFILE == "profiles/ISOcoated_v2_eci.icc"
TARGET_DPI == <<150, 150>>
JPEG_QUALITY == 95

ProfilePaths == {SRGB_PROFILE, ADOBE_RGB_PROFILE, CMYK_PROFILE}

\* The options of the two select boxes (lines 85 and 101), accents dropped.
SourceChoices == {"sRGB (Estandar Web)", "Adobe RGB 1998 (Espacio Grande)"}
FormatChoices == {"TIFF (Impresion - Recomendado)", "JPEG (Prueba/Web - CMYK)"}

\* -------------------------------------------------------- value encoding
\* Python's None, a name that is not bound yet, a bytes object, a raised
\* exception.  All are records, so that any two values can be compared.
None == [none |-> TRUE]
Unbound == [unbound |-> TRUE]
Bytes(s) == [bytes |-> s]
Raise(e) == [exc |-> e]
IsRaise(v) == "exc" \in DOMAIN v
IsImage(v) == "mode" \in DOMAIN v

\* Possible contents of the target profile file (zero-length included).
ProfileContents == {<< >>, <<7>>, <<7, 9>>}
\* An ICC profile that an uploaded file may carry itself.
ForeignProfile == Bytes(<<3>>)

\* ------------------------------------------------------------ Pillow: modes
DecodedModes == {"L", "LA", "P", "PA", "RGB", "RGBA", "CMYK", "LAB"}

\* Band names of a mode (PIL.ImageMode).
Bands(mode) ==
    CASE mode = "L" -> <<"L">>
      [] mode = "LA" -> <<"L", "A">>
      [] mode = "P" -> <<"P">>
      [] mode = "PA" -> <<"P", "A">>
      [] mode = "RGB" -> <<"R", "G", "B">>
      [] mode = "RGBA" -> <<"R", "G", "B", "A">>
      [] mode = "CMYK" -> <<"C", "M", "Y", "K">>
      [] mode = "LAB" -> <<"L", "A", "B">>

\* The characters of the mode string, for the test  'A' in input_img.mode.
ModeChars(mode) ==
    CASE mode = "L" -> {"L"}
      [] mode = "LA" -> {"L", "A"}
      [] mode = "P" -> {"P"}
      [] mode = "PA" -> {"P", "A"}
      [] mode = "RGB" -> {"R", "G", "B"}
      [] mode = "RGBA" -> {"R", "G", "B", "A"}
      [] mode = "CMYK" -> {"C", "M", "Y", "K"}
      [] mode = "LAB" -> {"L", "A", "B"}

Samples == 0 .. MaxChan

Image(mode, px, icc, transparency) ==
    [mode |-> mode, px |-> px, icc_profile |-> icc, transparency |-> transparency]

\* What Image.open can hand to the script: every mode, every pixel; a
\* palette image may carry a transparency entry (PNG tRNS), an RGB or CMYK
\* file may carry its own ICC profile.
DecodedImages ==
    UNION {
        { Image(m, p, i, t) :
            p \in [1 .. Len(Bands(m)) -> Samples],
            i \in (IF m \in {"RGB", "CMYK"} THEN {None, ForeignProfile} ELSE {None}),
            t \in (IF m = "P" THEN BOOLEAN ELSE {FALSE}) }
        : m \in DecodedModes }

\* An upload that no decoder identifies.
CorruptFile == [corrupt |-> TRUE]
UploadedFiles == {None, CorruptFile} \cup DecodedImages

VARIABLES
    \* the profile files on disk
    files, cmykReadable, cmykContent,
    \* the process: script runs so far, profile handles and transforms built
    runs, opens, builds,
    \* the script's names
    pc, CMYK_PROFILE_BYTES, source_profile_choice, source_profile_path,
    uploaded_file, output_format, input_img, cmyk_img, output_buffer,
    download, report, messages,
    \* what happened in this run
    decoded, call, failed, escaped

envVars == <<files, cmykReadable, cmykContent>>
procVars == <<runs, opens, builds>>
widgetVars == <<source_profile_choice, source_profile_path, uploaded_file, output_format>>
imgVars == <<input_img, cmyk_img, decoded, call>>
outVars == <<output_buffer, download, report>>
vars == <<files, cmykReadable, cmykContent, runs, opens, builds, pc,
          CMYK_PROFILE_BYTES, source_profile_choice, source_profile_path,
          uploaded_file, output_format, input_img, cmyk_img, output_buffer,
          download, report, messages, decoded, call, failed, escaped>>

\* The script's namespace at the start of a run.
FreshRun ==
    /\ pc = "startup"
    /\ CMYK_PROFILE_BYTES = Unbound
    /\ source_profile_choice = "" /\ source_profile_path = ""
    /\ uploaded_file = None /\ output_format = ""
    /\ input_img = Unbound /\ cmyk_img = Unbound /\ output_buffer = Unbound
    /\ download = None /\ report = None /\ messages = {}
    /\ decoded = None /\ call = None /\ failed = {} /\ escaped = FALSE

Init ==
    /\ files \in SUBSET ProfilePaths
    /\ cmykReadable \in BOOLEAN
    /\ cmykContent \in ProfileContents
    /\ runs = 1
    /\ opens = [p \in ProfilePaths |-> 0]
    /\ builds = [p \in {SRGB_PROFILE, ADOBE_RGB_PROFILE} |-> 0]
    /\ FreshRun

\* ------------------------------------------------------------- startup
\* any() in place of all().
AnyProfileExists == \E p \in ProfilePaths : p \in files

\* all(os.path.exists(p) for p in [...])
AllProfilesExist == \A p \in ProfilePaths : p \in files

\* Lines 22-36: the existence check, then the read of the target profile.
Startup ==
    /\ pc = "startup"
    /\ IF ~AllProfilesExist
       THEN /\ messages' = messages \cup {"profiles_missing"}
            /\ pc' = "halted"
            /\ CMYK_PROFILE_BYTES' = CMYK_PROFILE_BYTES
       ELSE IF ~cmykReadable
       THEN /\ messages' = messages \cup {"profile_read"}
            /\ pc' = "halted"
            /\ CMYK_PROFILE_BYTES' = None
       ELSE /\ messages' = messages
            /\ pc' = "widgets"
            /\ CMYK_PROFILE_BYTES' = Bytes(cmykContent)
    /\ UNCHANGED <<envVars, procVars, widgetVars, imgVars, outVars, failed, escaped>>

\* Lines 88-91.
SourcePathOf(choice) ==
    IF choice = "sRGB (Estandar Web)" THEN SRGB_PROFILE ELSE ADOBE_RGB_PROFILE

\* Lines 83-105: the three widgets; without an upload the script ends.
ReadWidgets ==
    /\ pc = "widgets"
    /\ \E c \in SourceChoices, u \in UploadedFiles, f \in FormatChoices :
          /\ source_profile_choice' = c
          /\ source_profile_path' = SourcePathOf(c)
          /\ uploaded_file' = u
          /\ output_format' = f
          /\ pc' = IF u # None THEN "open" ELSE "idle"
    /\ UNCHANGED <<envVars, procVars, CMYK_PROFILE_BYTES, imgVars, outVars,
                   messages, failed, escaped>>

\* ------------------------------------------------------ Pillow: pixels
Min2(a, b) == IF a < b THEN a ELSE b
Clip(v) == IF v < 0 THEN 0 ELSE IF v > MaxChan THEN MaxChan ELSE v

\* The colour a palette index stands for (the palette is data of the file).
Palette(i) == <<i, MaxChan - i, i>>

\* Convert.c: the mode pairs the C converter table covers, among the modes
\* of the model.  CMYK converts to RGB only, and LAB to nothing (LAB is
\* converted by ImageCms).
CoreConvertible(from, to) ==
    \/ from = to
    \/ from \in {"L", "LA", "P", "PA", "RGB", "RGBA"} /\ to \in {"RGB", "RGBA", "CMYK"}
    \/ from = "CMYK" /\ to = "RGB"

\* The converters' arithmetic on one pixel, for a pair CoreConvertible has.
CorePx(from, to, px) ==
    IF from = to THEN px
    ELSE LET rgb == CASE from \in {"RGB", "RGBA"} -> SubSeq(px, 1, 3)
                      [] from \in {"L", "LA"} -> <<px[1], px[1], px[1]>>
                      [] from \in {"P", "PA"} -> Palette(px[1])
                      [] from = "CMYK" -> <<Clip(MaxChan - px[1] - px[4]),
                                            Clip(MaxChan - px[2] - px[4]),
                                            Clip(MaxChan - px[3] - px[4])>>
             a == IF from \in {"LA", "PA"} THEN px[2]
                  ELSE IF from = "RGBA" THEN px[4] ELSE MaxChan
         IN CASE to = "RGB" -> rgb
              [] to = "RGBA" -> rgb \o <<a>>
              [] to = "CMYK" -> <<MaxChan - rgb[1], MaxChan - rgb[2],
                                  MaxChan - rgb[3], 0>>

\* ImageMode.getmodebase.
ModeBase(mode) ==
    CASE mode \in {"L", "LA"} -> "L"
      [] mode = "P" -> "P"
      [] OTHER -> "RGB"

\* Image.convert(mode): the C converter, and where it has none a second try
\* through the base mode.  loads: whether the (lazily read) pixel data of the
\* file can be loaded; a truncated file raises OSError here.
ImageConvert(im, mode, loads) ==
    LET base == ModeBase(im.mode)
        px == IF CoreConvertible(im.mode, mode)
              THEN CorePx(im.mode, mode, im.px)
              ELSE IF base # im.mode /\ CoreConvertible(im.mode, base)
                      /\ CoreConvertible(base, mode)
              THEN CorePx(base, mode, CorePx(im.mode, base, im.px))
              ELSE << >>
    IN IF ~loads THEN Raise("OSError")
       ELSE IF px = << >> THEN Raise("ValueError")
       ELSE Image(mode, px, im.icc_profile,
                  IF mode = im.mode THEN im.transparency ELSE FALSE)

\* Image.copy(): same mode, pixels and info.
ImageCopy(im) == Image(im.mode, im.px, im.icc_profile, im.transparency)

\* Image.getchannel('A').
GetAlpha(im) == im.px[Len(im.px)]

\* ------------------------------------------------------ exception flow
\* A narrower handler:  except ValueError.
RequestCatchesValueError(exc) == exc = "ValueError"

\* The exception classes the request's  except Exception  clause (line 200)
\* catches.  StopException, raised by st.stop(), derives from BaseException
\* and is handled by Streamlit's script runner.
ExceptionClasses == {"UnidentifiedImageError", "OSError", "ValueError", "PyCMSError"}
RequestCatches(exc) == exc \in ExceptionClasses

\* An exception raised at `site` under the request's try (lines 106-203):
\* the except clause reports it and the script runs to its end, or the
\* exception leaves the script.
RaiseInRequest(site, exc) ==
    /\ failed' = failed \cup {site}
    /\ IF RequestCatches(exc)
       THEN /\ messages' = messages \cup {"unexpected"}
            /\ pc' = "error"
            /\ escaped' = escaped
       ELSE /\ messages' = messages
            /\ pc' = "crashed"
            /\ escaped' = TRUE

\* st.stop() under the request's try, after the messages `shown`.
StopInRequest(shown) ==
    IF RequestCatches("StopException")
    THEN /\ messages' = messages \cup shown \cup {"unexpected"}
         /\ pc' = "error"
    ELSE /\ messages' = messages \cup shown
         /\ pc' = "stopped"

\* ------------------------------------------------------------- request
\* Line 108: Image.open(uploaded_file).
ImageOpen ==
    /\ pc = "open"
    /\ IF uploaded_file = CorruptFile
       THEN /\ RaiseInRequest("open", "UnidentifiedImageError")
            /\ UNCHANGED <<input_img, decoded>>
       ELSE /\ input_img' = uploaded_file
            /\ decoded' = uploaded_file
            /\ pc' = "standardize"
            /\ UNCHANGED <<messages, failed, escaped>>
    /\ UNCHANGED <<envVars, procVars, CMYK_PROFILE_BYTES, widgetVars, cmyk_img,
                   call, outVars>>

\* CMYK taken for a mode to convert as well.
ConvertibleModesWithCmyk == {"RGB", "RGBA", "CMYK"}

\* The modes the script converts (lines 113 and 145).
ConvertibleModes == {"RGB", "RGBA"}

\* Only the second half of the test of line 125.
HasAlphaTestLAOnly(mode) == mode = "LA"

\* Line 125: 'A' in input_img.mode or input_img.mode == 'LA'.
HasAlphaTest(mode) == "A" \in ModeChars(mode) \/ mode = "LA"

\* Lines 113-133: CMYK is kept as it is, any other mode is forced to RGB or
\* RGBA; a failed conversion is reported and the script stops.
Standardize ==
    /\ pc = "standardize"
    /\ IF input_img.mode \in ConvertibleModes
       THEN /\ pc' = "convert"
            /\ UNCHANGED <<input_img, cmyk_img, messages, failed>>
       ELSE IF input_img.mode = "CMYK"
       THEN /\ cmyk_img' = ImageCopy(input_img)
            /\ messages' = messages \cup {"already_cmyk"}
            /\ pc' = "convert"
            /\ UNCHANGED <<input_img, failed>>
       ELSE \E loads \in BOOLEAN :
              LET target == IF HasAlphaTest(input_img.mode) THEN "RGBA" ELSE "RGB"
                  r == ImageConvert(input_img, target, loads)
              IN IF IsRaise(r)
                 THEN /\ failed' = failed \cup {"coerce"}
                      /\ StopInRequest({"cannot_standardize"})
                      /\ UNCHANGED <<input_img, cmyk_img>>
                 ELSE /\ input_img' = r
                      /\ messages' = messages \cup {"standardized"}
                      /\ pc' = "convert"
                      /\ UNCHANGED <<cmyk_img, failed>>
    /\ UNCHANGED <<envVars, procVars, CMYK_PROFILE_BYTES, widgetVars, decoded,
                   call, outVars, escaped>>

\* ------------------------------------------------------- colour transform
\* ImageCms.profileToProfile(..., renderingIntent=1, outputMode='CMYK') on one
\* RGB pixel.  The numbers are littleCMS's and the profiles'; here a fixed
\* function of the pixel and the source profile stands for them.
LcmsTransform(rgb, source) ==
    LET c == MaxChan - rgb[1]
        m == MaxChan - rgb[2]
        y == MaxChan - rgb[3]
        k == Min2(c, Min2(m, y))
    IN IF source = SRGB_PROFILE THEN <<c - k, m - k, y - k, k>> ELSE <<c, m, y, 0>>

\* Image.putalpha(alpha): an image with an alpha band gets the band replaced;
\* any other is first promoted to getmodebase(mode) + "A" by the C converter,
\* which has no conversion from CMYK to RGBA.
PutAlpha(im, alpha) ==
    IF im.mode \in {"LA", "PA", "RGBA"}
    THEN Image(im.mode, SubSeq(im.px, 1, Len(im.px) - 1) \o <<alpha>>,
               im.icc_profile, im.transparency)
    ELSE IF ModeBase(im.mode) = "RGB" /\ CoreConvertible(im.mode, "RGBA")
    THEN Image("RGBA", SubSeq(CorePx(im.mode, "RGBA", im.px), 1, 3) \o <<alpha>>,
               im.icc_profile, im.transparency)
    ELSE Raise("ValueError")

\* ImageCms.getOpenProfile(path): needs the file, and a profile in it.
CanOpen(path) == path \in files /\ (path = CMYK_PROFILE => cmykContent # << >>)

\* A retry of the source profile: the handle is built twice in one call.
ProfilesOpenedTwice(source_path, cmyk_path, srcOk, dstOk) ==
    IF ~srcOk THEN << >>
    ELSE IF ~dstOk THEN <<source_path, source_path>>
    ELSE <<source_path, source_path, cmyk_path>>

\* Lines 56-57: the handles built by the two getOpenProfile calls, in order;
\* the second call is not reached when the first raises.
ProfilesOpened(source_path, cmyk_path, srcOk, dstOk) ==
    IF ~srcOk THEN << >>
    ELSE IF ~dstOk THEN <<source_path>>
    ELSE <<source_path, cmyk_path>>

\* Lines 39-76.  lib says which of the library calls succeed.  The outcome:
\* kind "return" with the value, or "raise" with the exception; the messages
\* shown, the profiles opened, whether a transform was built, and the step
\* that failed ("" when none did).
convert_rgb_to_cmyk(img, source_path, cmyk_path, lib) ==
    LET is_transparent == img.mode = "RGBA"
        rgb_img == ImageConvert(img, "RGB", lib.loads)
        alpha_channel == IF is_transparent THEN [band |-> GetAlpha(img)] ELSE None
        srcOk == lib.src /\ CanOpen(source_path)
        dstOk == lib.dst /\ CanOpen(cmyk_path)
        opened == ProfilesOpened(source_path, cmyk_path, srcOk, dstOk)
        cmyk == Image("CMYK", LcmsTransform(rgb_img.px, source_path),
                      Bytes(cmykContent), FALSE)
        out == IF is_transparent /\ cmyk.mode = "CMYK"
               THEN PutAlpha(cmyk, alpha_channel.band)
               ELSE cmyk
    IN IF IsRaise(rgb_img)
       THEN [kind |-> "raise", value |-> rgb_img, shown |-> {}, opened |-> << >>,
             built |-> FALSE, site |-> "to_rgb", alpha |-> alpha_channel]
       ELSE IF ~(srcOk /\ dstOk /\ lib.xf)
       THEN [kind |-> "return", value |-> None, shown |-> {"transform_error"},
             opened |-> opened, built |-> FALSE,
             site |-> IF srcOk /\ dstOk THEN "transform" ELSE "profile",
             alpha |-> alpha_channel]
       ELSE IF IsRaise(out)
       THEN [kind |-> "raise", value |-> out, shown |-> {}, opened |-> opened,
             built |-> TRUE, site |-> "putalpha", alpha |-> alpha_channel]
       ELSE [kind |-> "return", value |-> out, shown |-> {}, opened |-> opened,
             built |-> TRUE, site |-> "", alpha |-> alpha_channel]

LibOutcomes == [loads : BOOLEAN, src : BOOLEAN, dst : BOOLEAN, xf : BOOLEAN]

Count(p, seq) == Cardinality({i \in 1 .. Len(seq) : seq[i] = p})

\* Lines 145-153: the conversion, for the modes the script converts, and the
\* check of its result.
Convert ==
    /\ pc = "convert"
    /\ IF input_img.mode \in ConvertibleModes
       THEN \E lib \in LibOutcomes :
              LET r == convert_rgb_to_cmyk(input_img, source_profile_path,
                                           CMYK_PROFILE, lib)
              IN /\ call' = [img |-> input_img, outcome |-> r]
                 /\ opens' = [p \in ProfilePaths |-> opens[p] + Count(p, r.opened)]
                 /\ builds' = [builds EXCEPT ![source_profile_path] =
                                   @ + (IF r.built THEN 1 ELSE 0)]
                 /\ IF r.kind = "raise"
                    THEN /\ RaiseInRequest(r.site, r.value.exc)
                         /\ cmyk_img' = cmyk_img
                    ELSE IF r.value = None
                    THEN /\ cmyk_img' = None
                         /\ failed' = failed \cup {r.site}
                         /\ escaped' = escaped
                         /\ StopInRequest(r.shown \cup {"conversion_failed"})
                    ELSE /\ cmyk_img' = r.value
                         /\ messages' = messages \cup {"completed"}
                         /\ pc' = "encode"
                         /\ UNCHANGED <<failed, escaped>>
       ELSE /\ UNCHANGED <<call, opens, builds, cmyk_img, escaped>>
            /\ IF cmyk_img = Unbound \/ cmyk_img = None
               THEN /\ failed' = failed \cup {"convert"}
                    /\ StopInRequest({"conversion_failed"})
               ELSE /\ messages' = messages \cup {"completed"}
                    /\ pc' = "encode"
                    /\ failed' = failed
    /\ UNCHANGED <<envVars, runs, CMYK_PROFILE_BYTES, widgetVars, input_img,
                   decoded, outVars>>

\* ------------------------------------------------------------ encoding
\* TiffImagePlugin._save: the resolution and the compression are the save
\* parameters; the ICC profile is the parameter or, without one, the
\* image's own, and is written only if it is not empty.
TiffSave(im, params, ok) ==
    LET icc == IF "icc_profile" \in DOMAIN params THEN params.icc_profile
               ELSE im.icc_profile
    IN IF ~ok THEN Raise("OSError")
       ELSE [format |-> "TIFF", image |-> im,
             dpi |-> IF "dpi" \in DOMAIN params THEN params.dpi ELSE << >>,
             icc_profile |-> IF icc # None /\ icc # Bytes(<< >>) THEN icc ELSE None,
             compression |-> IF "compression" \in DOMAIN params
                             THEN params.compression ELSE "raw",
             quality |-> 0]

\* JpegImagePlugin._save: writes L, RGB and CMYK; density and ICC profile are
\* the save parameters only (0, 0 and none without them).
JpegSave(im, params, ok) ==
    IF im.mode \notin {"L", "RGB", "CMYK"} \/ ~ok THEN Raise("OSError")
    ELSE [format |-> "JPEG", image |-> im,
          dpi |-> IF "dpi" \in DOMAIN params THEN params.dpi ELSE <<0, 0>>,
          icc_profile |-> IF "icc_profile" \in DOMAIN params
                          THEN params.icc_profile ELSE None,
          compression |-> "jpeg",
          quality |-> IF "quality" \in DOMAIN params THEN params.quality ELSE 75]

\* Lines 156-157.
file_extension ==
    IF output_format = "TIFF (Impresion - Recomendado)" THEN ".tif" ELSE ".jpg"
mime_type ==
    IF output_format = "TIFF (Impresion - Recomendado)" THEN "image/tiff"
    ELSE "image/jpeg"

\* The TIFF save without its icc_profile parameter.
TiffParamsNoProfile == [dpi |-> TARGET_DPI, compression |-> "tiff_lzw"]

\* Lines 164-170: the parameters of the TIFF save.
TiffParams ==
    [dpi |-> TARGET_DPI, icc_profile |-> CMYK_PROFILE_BYTES, compression |-> "tiff_lzw"]

\* Lines 174-179: the parameters of the JPEG save.
JpegParams == [quality |-> JPEG_QUALITY, optimize |-> TRUE]

\* Lines 159-181: the image is written to the buffer in the chosen format.
Encode ==
    /\ pc = "encode"
    /\ \E ok \in BOOLEAN :
          LET jpg == ImageConvert(cmyk_img, "CMYK", TRUE)
              out == IF file_extension = ".tif" THEN TiffSave(cmyk_img, TiffParams, ok)
                     ELSE IF IsRaise(jpg) THEN jpg
                     ELSE JpegSave(jpg, JpegParams, ok)
          IN IF IsRaise(out)
             THEN /\ RaiseInRequest("save", out.exc)
                  /\ output_buffer' = output_buffer
             ELSE /\ output_buffer' = out
                  /\ pc' = "download"
                  /\ UNCHANGED <<messages, failed, escaped>>
    /\ UNCHANGED <<envVars, procVars, CMYK_PROFILE_BYTES, widgetVars, imgVars,
                   download, report>>

\* Lines 183-198: the download button and the description of the file.
Download ==
    /\ pc = "download"
    /\ download' = [data |-> output_buffer, mime |-> mime_type,
                    file_name |-> IF file_extension = ".tif" THEN "imagen_cmyk.tif"
                                  ELSE "imagen_cmyk.jpg"]
    /\ report' = [color_mode |-> "CMYK (FOGRA39 / ISO Coated v2)",
                  dpi |-> "150x150",
                  format |-> IF file_extension = ".tif" THEN ".TIF" ELSE ".JPG"]
    /\ pc' = "done"
    /\ UNCHANGED <<envVars, procVars, CMYK_PROFILE_BYTES, widgetVars, imgVars,
                   output_buffer, messages, failed, escaped>>

\* ---------------------------------------------------------------- reruns
Ended == pc \in {"halted", "idle", "stopped", "error", "crashed", "done"}

\* The next interaction: Streamlit executes the script again from the top,
\* in a new namespace, in the same process.
Rerun ==
    /\ Ended
    /\ runs < MaxRuns
    /\ runs' = runs + 1
    /\ pc' = "startup"
    /\ CMYK_PROFILE_BYTES' = Unbound
    /\ source_profile_choice' = "" /\ source_profile_path' = ""
    /\ uploaded_file' = None /\ output_format' = ""
    /\ input_img' = Unbound /\ cmyk_img' = Unbound /\ output_buffer' = Unbound
    /\ download' = None /\ report' = None /\ messages' = {}
    /\ decoded' = None /\ call' = None /\ failed' = {} /\ escaped' = FALSE
    /\ UNCHANGED <<envVars, opens, builds>>

Next ==
    \/ Startup
    \/ ReadWidgets
    \/ ImageOpen
    \/ Standardize
    \/ Convert
    \/ Encode
    \/ Download
    \/ Rerun

Spec == Init /\ [][Next]_vars

\* ================================================================ claims
\* The modes with an alpha band.
AlphaModes == {"LA", "PA", "RGBA"}
\* The uploaded image had transparency: an alpha band or a transparency entry.
SourceHadTransparency == decoded.mode \in AlphaModes \/ decoded.transparency
\* The profile bytes an encoded file carries (none when it has no ICC tag).
IccPayload(out) == IF out.icc_profile = None THEN << >> ELSE out.icc_profile.bytes
Encoded == output_buffer # Unbound
ErrorMessages == {"unexpected", "transform_error", "cannot_standardize", "conversion_failed"}

\* C1: whenever the colour transform of a convert_rgb_to_cmyk call succeeded,
\* the call returns an image whose colour bands are the transform's CMYK
\* output; for an RGBA argument the image has the argument's alpha as its
\* trailing band, for any other argument it is plain CMYK.
C1_AlphaReattached ==
    (call # None /\ call.outcome.built) =>
        LET cmyk == LcmsTransform(SubSeq(call.img.px, 1, 3), source_profile_path)
            r == call.outcome
        IN /\ r.kind = "return"
           /\ IsImage(r.value)
           /\ IF call.img.mode = "RGBA"
              THEN r.value.px = cmyk \o <<call.img.px[4]>>
              ELSE r.value.mode = "CMYK" /\ r.value.px = cmyk

\* C2: for an upload decoded as CMYK, convert_rgb_to_cmyk is never called in
\* the run, and the image handed to the encoder, in either format, is CMYK
\* with exactly the decoded pixel.
C2_CmykPassThrough ==
    (decoded # None /\ decoded.mode = "CMYK") =>
        /\ call = None
        /\ Encoded => /\ output_buffer.image.mode = "CMYK"
                      /\ output_buffer.image.px = decoded.px

C2_Witness ==
    /\ pc = "done" /\ decoded.mode = "CMYK" /\ output_buffer.format = "JPEG"
    /\ decoded.px = <<1, 0, 1, 0>>

\* C3: a JPEG output is CMYK without alpha, and when the uploaded image had
\* transparency the result says alphaDropped = true.
C3_JpegAlphaDropReported ==
    (pc = "done" /\ output_buffer.format = "JPEG") =>
        /\ output_buffer.image.mode = "CMYK"
        /\ SourceHadTransparency =>
              ("alphaDropped" \in DOMAIN report /\ report.alphaDropped = TRUE)

\* C5: no exception leaves the script, and a run in which a step of the
\* request failed has ended with an error message shown and without a
\* download.
C5_FailuresReported ==
    /\ ~escaped /\ pc # "crashed"
    /\ failed # {} => /\ pc \in {"stopped", "error"}
                      /\ messages \cap ErrorMessages # {}
                      /\ download = None

C5_Witness == "save" \in failed /\ pc = "error" /\ cmyk_img.mode = "CMYK"

C7_Dpi150 ==
    Encoded => /\ output_buffer.dpi = TARGET_DPI
               /\ output_buffer.format = "JPEG" =>
                     output_buffer.quality = JPEG_QUALITY /\ output_buffer.icc_profile = None

\* C8: with a profile file missing, or the target profile unreadable, the run
\* goes no further than the startup halt: nothing is decoded, converted,
\* encoded or offered, and no message of a request is shown.
C8_StartupHalts ==
    (~(\A p \in ProfilePaths : p \in files) \/ ~cmykReadable) =>
        /\ pc \in {"startup", "halted"}
        /\ decoded = None /\ call = None /\ ~Encoded /\ download = None
        /\ failed = {}
        /\ messages \subseteq {"profiles_missing", "profile_read"}

C8_Witness ==
    /\ pc = "halted" /\ SRGB_PROFILE \notin files /\ CMYK_PROFILE \in files
    /\ messages = {"profiles_missing"}

====
